---- MODULE Spec2Model ----
(***************************************************************************)
(* ThreadSafeVector<int, LoggingAllocator<int>> of src/main.cpp used by    *)
(* concurrently running tasks.  Every member function is split at the      *)
(* points where another thread can run: the construction of the            *)
(* lock_guard (blocking on the mutex), the body executed under the lock,   *)
(* the lock_guard destructor, and the return to the caller.                *)
(***************************************************************************)
EXTENDS Integers, Sequences, FiniteSets, Bags, TLC

\* Bounds of the model.
NumTasks == 2
MaxCalls == 4
MaxIndex == 2
MaxFail == 1
AddsPerWorker == 2
SizeBits == 8

\* Program constants.
ValueStride == 100
NoTask == 0
NullPtr == 0
Garbage == -1
SizeofT == 4

Tasks == 1..NumTasks

\* The thread of main(), next to the worker threads.
MainTask == NumTasks + 1

\* size_t arithmetic wraps at 2^SizeBits.
SizeModulus == 2 ^ SizeBits

VARIABLES
    data,        \* elements of the std::vector, in index order
    cap,         \* capacity of the std::vector
    start,       \* storage block the std::vector owns (NullPtr: none)
    heap,        \* blocks obtained from ::operator new and not yet deleted
    log,         \* lines written by LoggingAllocator to the diagnostic stream
    mtx,         \* owner of the std::mutex (NoTask: unlocked)
    alive,       \* the ThreadSafeVector object has not been destroyed
    pc,          \* per task: position inside add / get / size
    arg,         \* per task: value (add) or index (get) of the current call
    res,         \* per task: outcome of the current / last call
    newp,        \* per task: block acquired by push_back while it regrows
    calls,       \* calls invoked so far, by all tasks
    nadds,       \* per task: add() calls invoked so far
    passed,      \* history: values passed to add()
    failedAdds,  \* history: values whose add() ended with bad_alloc
    returnedOk,  \* history: number of add() calls that returned normally
    csDone,      \* history: number of add() critical sections left normally
    granted,     \* history: values of add() calls in mutex-grant order
    lenAtInvoke, \* history, per task: length when the current call was invoked
    retAtInvoke, \* history, per task: returnedOk when the call was invoked
    lenAtLock,   \* history, per task: length when the call was granted the mutex
    getFailed,   \* history: tasks one of whose get() calls ended with DataException
    afterFail,   \* history, per task: add() invoked after another task's failed get()
    mainpc,      \* position of main() after it has started its workers
    printed      \* what main() has written to the result stream

vars == <<data, cap, start, heap, log, mtx, alive, pc, arg, res, newp, calls,
          nadds, passed, failedAdds, returnedOk, csDone, granted,
          lenAtInvoke, retAtInvoke, lenAtLock, getFailed, afterFail,
          mainpc, printed>>

object == <<data, cap, start, heap, log>>
history == <<passed, failedAdds, returnedOk, csDone, granted, getFailed>>
snapshots == <<lenAtInvoke, retAtInvoke, lenAtLock, afterFail>>
client == <<calls, nadds>>
driver == <<mainpc, printed>>

\* Outcomes of a call.
None == [kind |-> "none", val |-> 0]
Void == [kind |-> "void", val |-> 0]
Value(v) == [kind |-> "value", val |-> v]
DataException == [kind |-> "DataException", val |-> 0]
BadAlloc == [kind |-> "bad_alloc", val |-> 0]

NoBlock == [p |-> NullPtr, n |-> 0]

Init ==
    /\ data = <<>>
    /\ cap = 0
    /\ start = NullPtr
    /\ heap = {}
    /\ log = <<>>
    /\ mtx = NoTask
    /\ alive = TRUE
    /\ pc = [t \in Tasks |-> "idle"]
    /\ arg = [t \in Tasks |-> 0]
    /\ res = [t \in Tasks |-> None]
    /\ newp = [t \in Tasks |-> NoBlock]
    /\ calls = 0
    /\ nadds = [t \in Tasks |-> 0]
    /\ passed = {}
    /\ failedAdds = {}
    /\ returnedOk = 0
    /\ csDone = 0
    /\ granted = <<>>
    /\ lenAtInvoke = [t \in Tasks |-> 0]
    /\ retAtInvoke = [t \in Tasks |-> 0]
    /\ lenAtLock = [t \in Tasks |-> 0]
    /\ getFailed = {}
    /\ afterFail = [t \in Tasks |-> FALSE]
    /\ mainpc = "join"
    /\ printed = [total |-> None, first |-> None]

----------------------------------------------------------------------------
\* std::lock_guard<std::mutex>

\* Faulty variant: the constructor does not wait for the owner to release.
LockGuardNoWait(t) ==
    mtx' = t

\* Constructor: blocks until the mutex is free, then owns it.
LockGuard(t) ==
    /\ mtx = NoTask
    /\ mtx' = t

\* Destructor: runs on every exit of the enclosing scope, return or throw.
LockGuardDtor(t) ==
    mtx' = NoTask

----------------------------------------------------------------------------
\* LoggingAllocator<int>

AcquireLine(n) == <<"acquire", n>>
ReleaseLine(n) == <<"release", n>>

\* Bytes asked of ::operator new: n * sizeof(T), computed in size_t.
AllocBytes(n) == (n * SizeofT) % SizeModulus

\* Address handed out by ::operator new: one that is not outstanding.
FreshPtr == CHOOSE p \in 1..(Cardinality(heap) + 1) : \A b \in heap : b.p # p

\* allocate(n), ::operator new succeeds.
AllocateOk(t, n) ==
    /\ log' = Append(log, AcquireLine(n))
    /\ heap' = heap \cup {[p |-> FreshPtr, n |-> n, bytes |-> AllocBytes(n)]}
    /\ newp' = [newp EXCEPT ![t] = [p |-> FreshPtr, n |-> n]]

\* allocate(n), ::operator new throws std::bad_alloc: the line is already out.
AllocateFail(t, n) ==
    /\ log' = Append(log, AcquireLine(n))
    /\ UNCHANGED <<heap, newp>>

\* deallocate(p, n)
Deallocate(p, n) ==
    /\ log' = Append(log, ReleaseLine(n))
    /\ heap' = {b \in heap : b.p # p}

----------------------------------------------------------------------------
\* Callers: a task that is not inside a call may invoke the next one.

NextValue(t) == t * ValueStride + nadds[t]

Invoke(t, entry, a) ==
    /\ alive
    /\ pc[t] = "idle"
    /\ calls < MaxCalls
    /\ pc' = [pc EXCEPT ![t] = entry]
    /\ arg' = [arg EXCEPT ![t] = a]
    /\ res' = [res EXCEPT ![t] = None]
    /\ calls' = calls + 1
    /\ UNCHANGED <<object, mtx, alive, driver, newp, lenAtLock>>

InvokeAdd(t) ==
    /\ Invoke(t, "add_lock", NextValue(t))
    /\ nadds' = [nadds EXCEPT ![t] = @ + 1]
    /\ passed' = passed \cup {NextValue(t)}
    /\ lenAtInvoke' = [lenAtInvoke EXCEPT ![t] = Len(data)]
    /\ afterFail' = [afterFail EXCEPT ![t] = getFailed \ {t} # {}]
    /\ UNCHANGED <<failedAdds, returnedOk, csDone, granted, getFailed,
                   retAtInvoke>>

InvokeGet(t) ==
    \E index \in 0..MaxIndex :
        /\ Invoke(t, "get_lock", index)
        /\ retAtInvoke' = [retAtInvoke EXCEPT ![t] = returnedOk]
        /\ UNCHANGED <<nadds, history, lenAtInvoke, afterFail>>

InvokeSize(t) ==
    /\ Invoke(t, "size_lock", 0)
    /\ retAtInvoke' = [retAtInvoke EXCEPT ![t] = returnedOk]
    /\ UNCHANGED <<nadds, history, lenAtInvoke, afterFail>>

\* The call is over: its frame (argument, result, snapshots) is gone.
Return(t) ==
    /\ pc' = [pc EXCEPT ![t] = "idle"]
    /\ arg' = [arg EXCEPT ![t] = 0]
    /\ res' = [res EXCEPT ![t] = None]
    /\ lenAtInvoke' = [lenAtInvoke EXCEPT ![t] = 0]
    /\ retAtInvoke' = [retAtInvoke EXCEPT ![t] = 0]
    /\ lenAtLock' = [lenAtLock EXCEPT ![t] = 0]
    /\ afterFail' = [afterFail EXCEPT ![t] = FALSE]
    /\ UNCHANGED <<object, alive, driver, newp, client>>

----------------------------------------------------------------------------
\* void add(T&& value)

AddLock(t) ==
    /\ pc[t] = "add_lock"
    /\ LockGuard(t)
    /\ pc' = [pc EXCEPT ![t] = "add_push"]
    /\ granted' = Append(granted, arg[t])
    /\ lenAtLock' = [lenAtLock EXCEPT ![t] = Len(data)]
    /\ UNCHANGED <<object, alive, driver, arg, res, newp, client, passed, failedAdds,
                   returnedOk, csDone, getFailed, lenAtInvoke, retAtInvoke,
                   afterFail>>

\* Capacity std::vector asks for when it is full (libstdc++: size + max(size, 1)).
NewCap(len) == len + (IF len > 1 THEN len ELSE 1)

\* Faulty variant: the element is inserted at the front.
AddPushFront(t) ==
    /\ pc[t] = "add_push"
    /\ Len(data) < cap
    /\ data' = <<arg[t]>> \o data
    /\ res' = [res EXCEPT ![t] = Void]
    /\ pc' = [pc EXCEPT ![t] = "add_unlock"]
    /\ UNCHANGED <<cap, start, heap, log, mtx, alive, driver, arg, newp, client,
                   history, snapshots>>

\* push_back with spare capacity: the element is constructed in place.
AddPush(t) ==
    /\ pc[t] = "add_push"
    /\ Len(data) < cap
    /\ data' = Append(data, arg[t])
    /\ res' = [res EXCEPT ![t] = Void]
    /\ pc' = [pc EXCEPT ![t] = "add_unlock"]
    /\ UNCHANGED <<cap, start, heap, log, mtx, alive, driver, arg, newp, client,
                   history, snapshots>>

\* Faulty variant: the vector regrows while one slot is still free.
AddAllocEager(t) ==
    /\ pc[t] = "add_push"
    /\ Len(data) + 1 >= cap
    /\ AllocateOk(t, NewCap(Len(data)))
    /\ pc' = [pc EXCEPT ![t] = "add_reloc"]
    /\ UNCHANGED <<data, cap, start, mtx, alive, driver, arg, res, client,
                   history, snapshots>>

\* push_back on a full vector: a larger block is acquired first.
AddAllocOk(t) ==
    /\ pc[t] = "add_push"
    /\ Len(data) >= cap
    /\ AllocateOk(t, NewCap(Len(data)))
    /\ pc' = [pc EXCEPT ![t] = "add_reloc"]
    /\ UNCHANGED <<data, cap, start, mtx, alive, driver, arg, res, client, history,
                   snapshots>>

\* Faulty variant: the length is already bumped when the acquisition fails.
AddAllocFailDirty(t) ==
    /\ pc[t] = "add_push"
    /\ Len(data) >= cap
    /\ Cardinality(failedAdds) + Cardinality({u \in Tasks : res[u] = BadAlloc}) < MaxFail
    /\ AllocateFail(t, NewCap(Len(data)))
    /\ data' = Append(data, Garbage)
    /\ res' = [res EXCEPT ![t] = BadAlloc]
    /\ pc' = [pc EXCEPT ![t] = "add_unwind"]
    /\ UNCHANGED <<cap, start, mtx, alive, driver, arg, client, history,
                   snapshots>>

\* ... or the acquisition fails and std::bad_alloc leaves push_back.
AddAllocFail(t) ==
    /\ pc[t] = "add_push"
    /\ Len(data) >= cap
    /\ Cardinality(failedAdds) + Cardinality({u \in Tasks : res[u] = BadAlloc}) < MaxFail
    /\ AllocateFail(t, NewCap(Len(data)))
    /\ res' = [res EXCEPT ![t] = BadAlloc]
    /\ pc' = [pc EXCEPT ![t] = "add_unwind"]
    /\ UNCHANGED <<data, cap, start, mtx, alive, driver, arg, client, history,
                   snapshots>>

\* Faulty variant: the old elements are not moved to the new block.
AddRelocateDrop(t) ==
    /\ pc[t] = "add_reloc"
    /\ data' = <<arg[t]>>
    /\ IF start # NullPtr
         THEN Deallocate(start, cap)
         ELSE UNCHANGED <<log, heap>>
    /\ start' = newp[t].p
    /\ cap' = newp[t].n
    /\ newp' = [newp EXCEPT ![t] = NoBlock]
    /\ res' = [res EXCEPT ![t] = Void]
    /\ pc' = [pc EXCEPT ![t] = "add_unlock"]
    /\ UNCHANGED <<mtx, alive, driver, arg, client, history, snapshots>>

\* Faulty variant: the new element is constructed in front of the old ones.
AddRelocateFront(t) ==
    /\ pc[t] = "add_reloc"
    /\ data' = <<arg[t]>> \o data
    /\ IF start # NullPtr
         THEN Deallocate(start, cap)
         ELSE UNCHANGED <<log, heap>>
    /\ start' = newp[t].p
    /\ cap' = newp[t].n
    /\ newp' = [newp EXCEPT ![t] = NoBlock]
    /\ res' = [res EXCEPT ![t] = Void]
    /\ pc' = [pc EXCEPT ![t] = "add_unlock"]
    /\ UNCHANGED <<mtx, alive, driver, arg, client, history, snapshots>>

\* Faulty variant: the old elements are moved to the new block in reverse
\* order.
AddRelocateReversed(t) ==
    /\ pc[t] = "add_reloc"
    /\ data' = Append([i \in DOMAIN data |-> data[Len(data) + 1 - i]], arg[t])
    /\ IF start # NullPtr
         THEN Deallocate(start, cap)
         ELSE UNCHANGED <<log, heap>>
    /\ start' = newp[t].p
    /\ cap' = newp[t].n
    /\ newp' = [newp EXCEPT ![t] = NoBlock]
    /\ res' = [res EXCEPT ![t] = Void]
    /\ pc' = [pc EXCEPT ![t] = "add_unlock"]
    /\ UNCHANGED <<mtx, alive, driver, arg, client, history, snapshots>>

\* Faulty variant: the capacity is recorded as the new length, not as the
\* size of the acquired block.
AddRelocateExactFit(t) ==
    /\ pc[t] = "add_reloc"
    /\ data' = Append(data, arg[t])
    /\ IF start # NullPtr
         THEN Deallocate(start, cap)
         ELSE UNCHANGED <<log, heap>>
    /\ start' = newp[t].p
    /\ cap' = Len(data) + 1
    /\ newp' = [newp EXCEPT ![t] = NoBlock]
    /\ res' = [res EXCEPT ![t] = Void]
    /\ pc' = [pc EXCEPT ![t] = "add_unlock"]
    /\ UNCHANGED <<mtx, alive, driver, arg, client, history, snapshots>>

\* The new element and the old ones go to the new block, the old block is
\* released (a vector without storage releases nothing).
AddRelocate(t) ==
    /\ pc[t] = "add_reloc"
    /\ data' = Append(data, arg[t])
    /\ IF start # NullPtr
         THEN Deallocate(start, cap)
         ELSE UNCHANGED <<log, heap>>
    /\ start' = newp[t].p
    /\ cap' = newp[t].n
    /\ newp' = [newp EXCEPT ![t] = NoBlock]
    /\ res' = [res EXCEPT ![t] = Void]
    /\ pc' = [pc EXCEPT ![t] = "add_unlock"]
    /\ UNCHANGED <<mtx, alive, driver, arg, client, history, snapshots>>

\* End of the scope on the normal path.
AddUnlock(t) ==
    /\ pc[t] = "add_unlock"
    /\ LockGuardDtor(t)
    /\ pc' = [pc EXCEPT ![t] = "add_ret"]
    /\ csDone' = csDone + 1
    /\ UNCHANGED <<object, alive, driver, arg, res, newp, client, passed, failedAdds,
                   returnedOk, granted, getFailed, snapshots>>

\* Faulty variant: the mutex stays locked when std::bad_alloc propagates.
AddUnwindLeak(t) ==
    /\ pc[t] = "add_unwind"
    /\ pc' = [pc EXCEPT ![t] = "add_ret"]
    /\ UNCHANGED <<object, mtx, alive, driver, arg, res, newp, client, history,
                   snapshots>>

\* Stack unwinding while std::bad_alloc propagates.
AddUnwind(t) ==
    /\ pc[t] = "add_unwind"
    /\ LockGuardDtor(t)
    /\ pc' = [pc EXCEPT ![t] = "add_ret"]
    /\ UNCHANGED <<object, alive, driver, arg, res, newp, client, history,
                   snapshots>>

\* Control is back in the caller, with or without the exception.
AddReturn(t) ==
    /\ pc[t] = "add_ret"
    /\ Return(t)
    /\ UNCHANGED mtx
    /\ IF res[t] = Void
         THEN returnedOk' = returnedOk + 1 /\ UNCHANGED failedAdds
         ELSE failedAdds' = failedAdds \cup {arg[t]} /\ UNCHANGED returnedOk
    /\ UNCHANGED <<passed, csDone, granted, getFailed>>

----------------------------------------------------------------------------
\* T get(size_t index) const

GetLock(t) ==
    /\ pc[t] = "get_lock"
    /\ LockGuard(t)
    /\ pc' = [pc EXCEPT ![t] = "get_check"]
    /\ lenAtLock' = [lenAtLock EXCEPT ![t] = Len(data)]
    /\ UNCHANGED <<object, alive, driver, arg, res, newp, client, history,
                   lenAtInvoke, retAtInvoke, afterFail>>

\* data[index]: std::vector::operator[] does not check the index; outside the
\* elements it reads a value that no add() stored.
At(d, index) == IF index + 1 \in DOMAIN d THEN d[index + 1] ELSE Garbage

\* Faulty variant: the check lets index = size() through.
GetResultOffByOne(d, index) ==
    IF index > Len(d) THEN DataException ELSE Value(At(d, index))

\* Faulty variant: the element is read one position too far.
GetResultOneBased(d, index) ==
    IF index >= Len(d) THEN DataException ELSE Value(At(d, index + 1))

\* if (index >= data.size()) throw DataException(...); return data[index];
GetResult(d, index) ==
    IF index >= Len(d) THEN DataException ELSE Value(At(d, index))

GetThrow(t) ==
    /\ pc[t] = "get_check"
    /\ GetResult(data, arg[t]) = DataException
    /\ res' = [res EXCEPT ![t] = DataException]
    /\ pc' = [pc EXCEPT ![t] = "get_unwind"]
    /\ UNCHANGED <<object, mtx, alive, driver, arg, newp, client, history,
                   snapshots>>

GetRead(t) ==
    /\ pc[t] = "get_check"
    /\ GetResult(data, arg[t]) # DataException
    /\ res' = [res EXCEPT ![t] = GetResult(data, arg[t])]
    /\ pc' = [pc EXCEPT ![t] = "get_unlock"]
    /\ UNCHANGED <<object, mtx, alive, driver, arg, newp, client, history,
                   snapshots>>

\* End of the scope on the normal path, then the caller has the copy.
GetUnlock(t) ==
    /\ pc[t] = "get_unlock"
    /\ LockGuardDtor(t)
    /\ Return(t)
    /\ UNCHANGED history

\* Faulty variant: the mutex stays locked when DataException propagates.
GetUnwindLeak(t) ==
    /\ pc[t] = "get_unwind"
    /\ Return(t)
    /\ getFailed' = getFailed \cup {t}
    /\ UNCHANGED <<mtx, passed, failedAdds, returnedOk, csDone, granted>>

\* Stack unwinding while DataException propagates, then the caller has it.
GetUnwind(t) ==
    /\ pc[t] = "get_unwind"
    /\ LockGuardDtor(t)
    /\ Return(t)
    /\ getFailed' = getFailed \cup {t}
    /\ UNCHANGED <<passed, failedAdds, returnedOk, csDone, granted>>

----------------------------------------------------------------------------
\* size_t size() const

\* Faulty variant: size() reads without taking the mutex.
SizeLockNoWait(t) ==
    /\ pc[t] = "size_lock"
    /\ pc' = [pc EXCEPT ![t] = "size_read"]
    /\ lenAtLock' = [lenAtLock EXCEPT ![t] = Len(data)]
    /\ UNCHANGED <<object, mtx, alive, driver, arg, res, newp, client, history,
                   lenAtInvoke, retAtInvoke, afterFail>>

SizeLock(t) ==
    /\ pc[t] = "size_lock"
    /\ LockGuard(t)
    /\ pc' = [pc EXCEPT ![t] = "size_read"]
    /\ lenAtLock' = [lenAtLock EXCEPT ![t] = Len(data)]
    /\ UNCHANGED <<object, alive, driver, arg, res, newp, client, history,
                   lenAtInvoke, retAtInvoke, afterFail>>

\* Faulty variant: the capacity is returned.
SizeResultCapacity(d) == Value(cap)

\* return data.size();
SizeResult(d) == Value(Len(d))

SizeRead(t) ==
    /\ pc[t] = "size_read"
    /\ res' = [res EXCEPT ![t] = SizeResult(data)]
    /\ pc' = [pc EXCEPT ![t] = "size_unlock"]
    /\ UNCHANGED <<object, mtx, alive, driver, arg, newp, client, history,
                   snapshots>>

SizeUnlock(t) ==
    /\ pc[t] = "size_unlock"
    /\ LockGuardDtor(t)
    /\ Return(t)
    /\ UNCHANGED history

----------------------------------------------------------------------------
\* ~ThreadSafeVector: the owner destroys the object once no call is running;
\* the std::vector destroys its elements and releases its block.

AllIdle == \A t \in Tasks : pc[t] = "idle"

Destroy ==
    /\ alive
    /\ AllIdle
    /\ alive' = FALSE
    /\ IF start # NullPtr
         THEN Deallocate(start, cap)
         ELSE UNCHANGED <<log, heap>>
    /\ data' = <<>>
    /\ cap' = 0
    /\ start' = NullPtr
    /\ UNCHANGED <<mtx, pc, arg, res, newp, client, history, snapshots,
                   driver>>

----------------------------------------------------------------------------

Call(t) == InvokeAdd(t) \/ InvokeGet(t) \/ InvokeSize(t)

\* Steps that wait for the mutex, and steps that only need the processor.
Acquire(t) == AddLock(t) \/ GetLock(t) \/ SizeLock(t)

Run(t) ==
    \/ AddPush(t) \/ AddAllocOk(t) \/ AddAllocFail(t) \/ AddRelocate(t)
    \/ AddUnlock(t) \/ AddUnwind(t) \/ AddReturn(t)
    \/ GetThrow(t) \/ GetRead(t) \/ GetUnlock(t) \/ GetUnwind(t)
    \/ SizeRead(t) \/ SizeUnlock(t)

Step(t) == Acquire(t) \/ Run(t)

Next ==
    \/ \E t \in Tasks : Call(t)
    \/ \E t \in Tasks : Step(t)
    \/ Destroy

Spec == Init /\ [][Next]_vars

\* Fair scheduling: a thread that can run eventually runs, and a thread
\* blocked on the mutex gets it if the mutex is free again and again.
FairSpec ==
    Spec /\ \A t \in Tasks : WF_vars(Run(t)) /\ SF_vars(Acquire(t))

----------------------------------------------------------------------------
\* LoggingAllocator<int> used on its own: a caller acquires storage for any
\* element count that fits size_t and releases it again.

DirectAllocateOk(t) ==
    \E n \in 0..(SizeModulus - 1) :
        /\ log = <<>>
        /\ AllocateOk(t, n)
        /\ UNCHANGED <<data, cap, start, mtx, alive, driver, pc, arg, res,
                       client, history, snapshots>>

DirectAllocateFail(t) ==
    \E n \in 0..(SizeModulus - 1) :
        /\ log = <<>>
        /\ AllocateFail(t, n)
        /\ UNCHANGED <<data, cap, start, mtx, alive, driver, pc, arg, res,
                       client, history, snapshots>>

DirectDeallocate(t) ==
    /\ newp[t] # NoBlock
    /\ Deallocate(newp[t].p, newp[t].n)
    /\ newp' = [newp EXCEPT ![t] = NoBlock]
    /\ UNCHANGED <<data, cap, start, mtx, alive, driver, pc, arg, res,
                   client, history, snapshots>>

AllocNext ==
    \E t \in Tasks :
        DirectAllocateOk(t) \/ DirectAllocateFail(t) \/ DirectDeallocate(t)

AllocSpec == Init /\ [][AllocNext]_vars

----------------------------------------------------------------------------
\* int main(): the workers of the driver and the main thread.

\* Faulty variant: the main thread does not join the workers.
MainJoinNoWait ==
    /\ mainpc = "join"
    /\ mainpc' = "size_lock"
    /\ UNCHANGED <<object, mtx, alive, printed, pc, arg, res, newp, client,
                   history, snapshots>>

\* worker(id): the next safeVec.add(id * 100 + i) of the loop.
WorkerAdd(t) ==
    /\ mainpc = "join"
    /\ pc[t] = "idle"
    /\ nadds[t] < AddsPerWorker
    /\ pc' = [pc EXCEPT ![t] = "add_lock"]
    /\ arg' = [arg EXCEPT ![t] = NextValue(t)]
    /\ res' = [res EXCEPT ![t] = None]
    /\ nadds' = [nadds EXCEPT ![t] = @ + 1]
    /\ passed' = passed \cup {NextValue(t)}
    /\ UNCHANGED <<object, mtx, alive, driver, newp, calls, failedAdds,
                   returnedOk, csDone, granted, getFailed, snapshots>>

\* add() returned normally: the loop goes on.
WorkerAddReturn(t) ==
    /\ res[t] = Void
    /\ AddReturn(t)

\* bad_alloc leaves the worker function: std::terminate ends the process,
\* no thread takes another step.
WorkerAbort(t) ==
    /\ pc[t] = "add_ret"
    /\ res[t] = BadAlloc
    /\ mainpc' = "aborted"
    /\ pc' = [u \in Tasks |-> "terminated"]
    /\ UNCHANGED <<object, mtx, alive, printed, arg, res, newp, client,
                   history, snapshots>>

WorkerStep(t) ==
    \/ AddLock(t) \/ AddPush(t) \/ AddAllocOk(t) \/ AddAllocFail(t)
    \/ AddRelocate(t) \/ AddUnlock(t) \/ AddUnwind(t)
    \/ WorkerAddReturn(t) \/ WorkerAbort(t)

\* t.join() for every thread: all workers have left their loops.
MainJoin ==
    /\ mainpc = "join"
    /\ \A t \in Tasks : pc[t] = "idle" /\ nadds[t] = AddsPerWorker
    /\ mainpc' = "size_lock"
    /\ UNCHANGED <<object, mtx, alive, printed, pc, arg, res, newp, client,
                   history, snapshots>>

\* safeVec.size()
MainSizeLock ==
    /\ mainpc = "size_lock"
    /\ LockGuard(MainTask)
    /\ mainpc' = "size_read"
    /\ UNCHANGED <<object, alive, printed, pc, arg, res, newp, client,
                   history, snapshots>>

MainSizeRead ==
    /\ mainpc = "size_read"
    /\ printed' = [printed EXCEPT !.total = SizeResult(data)]
    /\ LockGuardDtor(MainTask)
    /\ mainpc' = "get_lock"
    /\ UNCHANGED <<object, alive, pc, arg, res, newp, client, history,
                   snapshots>>

\* safeVec.get(0)
MainGetLock ==
    /\ mainpc = "get_lock"
    /\ LockGuard(MainTask)
    /\ mainpc' = "get_check"
    /\ UNCHANGED <<object, alive, printed, pc, arg, res, newp, client,
                   history, snapshots>>

\* The element is printed, or DataException reaches the catch block.
MainGetRead ==
    /\ mainpc = "get_check"
    /\ printed' = [printed EXCEPT !.first = GetResult(data, 0)]
    /\ LockGuardDtor(MainTask)
    /\ mainpc' = "destroy"
    /\ UNCHANGED <<object, alive, pc, arg, res, newp, client, history,
                   snapshots>>

\* End of the try block: safeVec is destroyed, main returns.
MainDestroy ==
    /\ mainpc = "destroy"
    /\ alive' = FALSE
    /\ IF start # NullPtr
         THEN Deallocate(start, cap)
         ELSE UNCHANGED <<log, heap>>
    /\ data' = <<>>
    /\ cap' = 0
    /\ start' = NullPtr
    /\ mainpc' = "done"
    /\ UNCHANGED <<mtx, printed, pc, arg, res, newp, client, history,
                   snapshots>>

MainStep ==
    \/ MainJoin \/ MainSizeLock \/ MainSizeRead
    \/ MainGetLock \/ MainGetRead \/ MainDestroy

DriverNext ==
    \/ \E t \in Tasks : WorkerAdd(t)
    \/ \E t \in Tasks : WorkerStep(t)
    \/ MainStep

\* Every thread that can run is eventually scheduled.
DriverSpec == Init /\ [][DriverNext]_vars /\ WF_vars(DriverNext)

----------------------------------------------------------------------------
\* Vocabulary of the properties.

\* The task has been granted the mutex and has not yet released it.
InCS(t) ==
    pc[t] \in {"add_push", "add_reloc", "add_unlock", "add_unwind",
               "get_check", "get_unlock", "get_unwind",
               "size_read", "size_unlock"}

\* The next step of the task reads or writes the std::vector.
Accessing(t) == pc[t] \in {"add_push", "add_reloc", "get_check", "size_read"}

\* The task is blocked in a lock_guard constructor.
Waiting(t) == pc[t] \in {"add_lock", "get_lock", "size_lock"}

Range(s) == {s[i] : i \in DOMAIN s}
BagOfSeq(s) == [v \in Range(s) |-> Cardinality({i \in DOMAIN s : s[i] = v})]
TaskOf(v) == v \div ValueStride

\* What a caller reads by iterating get over [0, size()).
Readable == [i \in 1..SizeResult(data).val |-> GetResult(data, i - 1)]

\* Values whose add() ended or is ending with bad_alloc.
Failed == failedAdds \cup {arg[t] : t \in {u \in Tasks : res[u] = BadAlloc}}
Stored(v) == v \notin Failed

\* Position of a value in the order in which add() calls were granted the mutex.
GrantPos(v) == CHOOSE i \in DOMAIN granted : granted[i] = v

----------------------------------------------------------------------------
\* C1 No lost updates: once every task has completed its calls, the values
\* read back through get(0), ..., get(size()-1) are exactly the values that
\* were passed to add() and appended (an add() that ended with bad_alloc
\* appended nothing): each of them once, and no other value.
NoLostUpdates ==
    (alive /\ AllIdle) =>
        BagOfSeq(Readable) = SetToBag({Value(v) : v \in passed \ failedAdds})

\* Both tasks appended two values each, interleaved, and all calls are over.
NoLostUpdatesWitness ==
    /\ alive /\ AllIdle
    /\ failedAdds = {}
    /\ Len(data) = 4
    /\ \A t \in Tasks : nadds[t] >= 2
    /\ TaskOf(data[1]) # TaskOf(data[2])
    /\ TaskOf(data[2]) # TaskOf(data[3])

\* C2 Count conservation: once all tasks have completed, size() equals the
\* number M of add() calls that returned successfully.
CountConservation ==
    (alive /\ AllIdle) => SizeResult(data) = Value(returnedOk)

\* Three add() calls returned, one more failed, the count is three.
CountConservationWitness ==
    /\ alive /\ AllIdle
    /\ returnedOk = 3
    /\ failedAdds # {}
    /\ SizeResult(data) = Value(3)

\* C3 Mutual exclusion: at most one task is inside the critical section of
\* add(), get() or size(), and a task about to read or write the vector
\* (its reallocation included) holds the mutex.
MutualExclusion ==
    /\ Cardinality({t \in Tasks : InCS(t)}) <= 1
    /\ \A t \in Tasks : InCS(t) => mtx = t
    /\ \A t \in Tasks : Accessing(t) => mtx = t

\* One task is reallocating while another one is blocked on the mutex.
MutualExclusionWitness ==
    \E t, u \in Tasks :
        /\ t # u
        /\ pc[t] = "add_reloc"
        /\ Waiting(u)
        /\ Len(data) >= 1

\* C4 Bounds enforcement: a get(index) with index >= the length (index 0 on
\* an empty sequence included) ends with DataException and not with a value,
\* and the failing get leaves contents and length as they were.
BoundsEnforcedState ==
    \A t \in Tasks :
        /\ (pc[t] \in {"get_unlock", "get_unwind"} /\ arg[t] >= lenAtLock[t])
              => (pc[t] = "get_unwind" /\ res[t] = DataException)
        /\ pc[t] = "get_unwind" => Len(data) = lenAtLock[t]

FailedGetStep(t) ==
    \/ pc[t] = "get_check" /\ pc'[t] = "get_unwind"
    \/ pc[t] = "get_unwind" /\ pc'[t] = "idle"

BoundsEnforcement ==
    /\ []BoundsEnforcedState
    /\ [][\A t \in Tasks : FailedGetStep(t) => (data' = data /\ cap' = cap)]_vars

\* get(index) with index = length is failing on a non-empty sequence.
BoundsEnforcementWitness ==
    \E t \in Tasks :
        /\ pc[t] = "get_unwind"
        /\ Len(data) >= 1
        /\ arg[t] = Len(data)
        /\ res[t] = DataException

\* C5 Scoped acquisition: a call holds the mutex from its entry into the
\* critical section and has released it when it ends, by return or by
\* exception (DataException of get, bad_alloc of add); when no task is inside
\* a call the mutex is free.
ScopedAcquisition ==
    /\ \A t \in Tasks : InCS(t) => mtx = t
    /\ \A t \in Tasks : ~InCS(t) => mtx # t
    /\ AllIdle => mtx = NoTask

\* A get() and an add() have both failed, every call is over, the mutex is free.
ScopedAcquisitionWitness ==
    /\ alive /\ AllIdle
    /\ getFailed # {}
    /\ failedAdds # {}
    /\ mtx = NoTask

\* C6 Release on failure, deadlock freedom: under fair scheduling an add()
\* invoked by a task after a get() of another task failed with DataException
\* is granted the mutex and returns (successfully, unless its own allocation
\* fails); every invoked add / get / size returns; and in no state are all
\* unfinished tasks blocked on the mutex.
NotAllBlocked ==
    (\E t \in Tasks : Waiting(t)) => (mtx = NoTask \/ InCS(mtx))

ReleaseOnFailure ==
    /\ \A u \in Tasks :
          (pc[u] = "add_lock" /\ afterFail[u])
              ~> (pc[u] = "add_ret" /\ res[u] \in {Void, BadAlloc})
    /\ \A t \in Tasks : (pc[t] # "idle") ~> (pc[t] = "idle")
    /\ []NotAllBlocked

\* An add() invoked after another task's failed get() has returned normally.
ReleaseOnFailureWitness ==
    \E u \in Tasks :
        /\ pc[u] = "add_ret"
        /\ afterFail[u]
        /\ res[u] = Void
        /\ getFailed \ {u} # {}

\* C7 Append postcondition on return, as stated: when add(value) returns,
\* the length is exactly one greater than at the invocation and value is the
\* last element, also for a caller that runs next to other appenders.
AppendOnReturnAsInvoked ==
    \A t \in Tasks :
        (pc[t] = "add_ret" /\ res[t] = Void) =>
            /\ Len(data) = lenAtInvoke[t] + 1
            /\ At(data, Len(data) - 1) = arg[t]

\* C7 as amended: when add(value) leaves its critical section, the length is
\* exactly one greater than when the call was granted the mutex and value is
\* the last element; when it returns, the length is at least one greater
\* than at the invocation and value is still at the index it was stored at.
AppendPostcondition ==
    \A t \in Tasks :
        /\ pc[t] = "add_unlock" =>
              /\ Len(data) = lenAtLock[t] + 1
              /\ At(data, Len(data) - 1) = arg[t]
        /\ (pc[t] = "add_ret" /\ res[t] = Void) =>
              /\ Len(data) >= lenAtInvoke[t] + 1
              /\ Len(data) >= lenAtLock[t] + 1
              /\ At(data, lenAtLock[t]) = arg[t]

\* An add() is returning after two other appends went in since its invocation,
\* one before and one after its own.
AppendPostconditionWitness ==
    \E t \in Tasks :
        /\ pc[t] = "add_ret" /\ res[t] = Void
        /\ lenAtLock[t] = lenAtInvoke[t] + 1
        /\ Len(data) = lenAtLock[t] + 2

\* C8 In-range read: a get(index) with index < length returns a copy of the
\* element at that position, which is the index-th value in the order in
\* which the appends were granted the mutex, and leaves contents and length
\* unchanged.
InRangeReadState ==
    \A t \in Tasks :
        /\ (pc[t] \in {"get_unlock", "get_unwind"} /\ arg[t] < lenAtLock[t])
              => pc[t] = "get_unlock"
        /\ pc[t] = "get_unlock" =>
              /\ arg[t] < Len(data)
              /\ Len(data) = lenAtLock[t]
              /\ res[t] = Value(At(data, arg[t]))
              /\ arg[t] < Len(SelectSeq(granted, Stored))
              /\ res[t] = Value(At(SelectSeq(granted, Stored), arg[t]))

ReadStep(t) ==
    \/ pc[t] = "get_check" /\ pc'[t] = "get_unlock"
    \/ pc[t] = "get_unlock" /\ pc'[t] = "idle"

InRangeRead ==
    /\ []InRangeReadState
    /\ [][\A t \in Tasks : ReadStep(t) => (data' = data /\ cap' = cap)]_vars

\* After three appends get(2) returns the third value.
InRangeReadWitness ==
    \E t \in Tasks :
        /\ pc[t] = "get_unlock"
        /\ Len(data) = 3
        /\ arg[t] = 2
        /\ res[t] = Value(data[3])

\* C9 Linearization order: the elements are stored in the order in which
\* their add() calls were granted the mutex (a granted earlier than b puts a
\* at the smaller index), and every change of the sequence is one append at
\* its end, earlier elements untouched, made by the holder of the mutex.
GrantOrdered ==
    /\ \A i \in DOMAIN data : data[i] \in Range(granted)
    /\ \A i, j \in DOMAIN data :
          i < j => GrantPos(data[i]) < GrantPos(data[j])
    /\ (alive /\ \A t \in Tasks : pc[t] \notin {"add_push", "add_reloc"})
          => data = SelectSeq(granted, Stored)

AtomicAppend ==
    (data' # data /\ alive') =>
        \E t \in Tasks :
            /\ mtx = t
            /\ InCS(t)
            /\ data' = Append(data, arg[t])

LinearizationOrder ==
    /\ []GrantOrdered
    /\ [][AtomicAppend]_vars

\* The second add() to be invoked was granted the mutex first and is stored
\* first; an add() granted in between failed and stored nothing.
LinearizationOrderWitness ==
    /\ Len(data) = 2
    /\ Len(granted) = 3
    /\ data[1] = granted[1]
    /\ data[2] = granted[3]
    /\ TaskOf(data[1]) # TaskOf(data[2])

\* C10 Visibility of completed writes: a new sequence has size() = 0; every
\* size() returns the number of add() calls that completed their critical
\* section before its own (an add() ended by bad_alloc wrote nothing and is
\* not counted); an add() that returned before a size() or get() was invoked
\* shows in the result of that call.
Visibility ==
    /\ calls = 0 => SizeResult(data) = Value(0)
    /\ \A t \in Tasks :
          pc[t] = "size_unlock" =>
              /\ res[t] = Value(csDone)
              /\ res[t].val >= retAtInvoke[t]
    /\ \A t \in Tasks :
          (pc[t] \in {"get_unlock", "get_unwind"} /\ arg[t] < retAtInvoke[t])
              => (pc[t] = "get_unlock" /\ res[t].kind = "value")

\* size() returns 2: one add() had returned before it was invoked, another
\* completed while it waited for the mutex.
VisibilityWitness ==
    \E t \in Tasks :
        /\ pc[t] = "size_unlock"
        /\ retAtInvoke[t] = 1
        /\ res[t] = Value(2)

----------------------------------------------------------------------------
\* Vocabulary of the allocator properties.

Lines(kind) == SelectSeq(log, LAMBDA l : l[1] = kind)
RECURSIVE SumCounts(_)
SumCounts(ls) == IF ls = <<>> THEN 0 ELSE Head(ls)[2] + SumCounts(Tail(ls))

\* The step writes one line of the given kind.
Emits(kind) == Len(log') = Len(log) + 1 /\ log'[Len(log')][1] = kind
EmittedCount == log'[Len(log')][2]

\* C11 Balanced allocation logging: once the sequence is destroyed, there
\* are as many release lines as acquire lines, their element counts sum to
\* the same number, and no storage block is outstanding.
BalancedLogging ==
    ~alive =>
        /\ Len(Lines("release")) = Len(Lines("acquire"))
        /\ SumCounts(Lines("release")) = SumCounts(Lines("acquire"))
        /\ heap = {}

\* C12 Release matches acquire: every deallocate(p, n) of the sequence, in
\* growth and in destruction, names a block that an earlier allocate(n)
\* returned with the same n and that is still outstanding; the block the
\* sequence owns is outstanding with the capacity as its count.
OwnedBlockOutstanding ==
    start # NullPtr => \E b \in heap : b.p = start /\ b.n = cap

ReleaseOfAcquired ==
    Emits("release") =>
        \E b \in heap :
            /\ b.p = start
            /\ b.n = EmittedCount
            /\ heap' = heap \ {b}

ReleaseMatchesAcquire ==
    /\ []OwnedBlockOutstanding
    /\ [][ReleaseOfAcquired]_vars

\* The sequence grew twice and was destroyed: three blocks were released.
ReleaseMatchesAcquireWitness ==
    /\ ~alive
    /\ Len(Lines("release")) = 3
    /\ heap = {}

\* C13 Acquire failure emits no diagnostic: the step in which allocate(n)
\* fails writes no acquire line.
SilentAcquireFailure ==
    [][\A t \in Tasks :
          (pc[t] = "add_push" /\ pc'[t] = "add_unwind") => log' = log]_vars

\* C14 Failed append leaves the container unchanged and usable: when the
\* allocator fails inside add(), bad_alloc reaches the caller, length,
\* contents and storage block are what they were, the mutex is released, and
\* the calls that follow find a well-formed sequence.
FailedAddStep(t) ==
    \/ pc[t] = "add_push" /\ pc'[t] = "add_unwind"
    \/ pc[t] = "add_unwind" /\ pc'[t] = "add_ret"
    \/ pc[t] = "add_ret" /\ res[t] = BadAlloc /\ pc'[t] = "idle"

FailedAddState ==
    \A t \in Tasks :
        /\ pc[t] = "add_unwind" =>
              /\ res[t] = BadAlloc
              /\ Len(data) = lenAtLock[t]
              /\ arg[t] \notin Range(data)
        /\ (pc[t] = "add_ret" /\ res[t] = BadAlloc) =>
              /\ mtx # t
              /\ arg[t] \notin Range(data)
        /\ Range(data) \cap failedAdds = {}
        /\ Len(data) <= cap
        /\ OwnedBlockOutstanding

FailedAppend ==
    /\ []FailedAddState
    /\ [][\A t \in Tasks :
            FailedAddStep(t) =>
                /\ data' = data /\ cap' = cap /\ start' = start
                /\ heap' = heap]_vars

\* The first add() granted the mutex failed; add() calls after it succeeded
\* and a get() reads the element stored after the failure.
FailedAppendWitness ==
    \E t \in Tasks :
        /\ granted # <<>>
        /\ granted[1] \in failedAdds
        /\ Len(data) = 2
        /\ pc[t] = "get_unlock"
        /\ res[t] = Value(data[1])

\* C15 Storage sufficiency: a block that allocate(n) returned holds at least
\* n elements: the bytes obtained from the raw allocator are at least
\* n * sizeof(T) as a product of numbers, also when the product does not fit
\* size_t.
StorageSufficient ==
    \A b \in heap : b.bytes >= b.n * SizeofT

\* C16 Driver outcome: in every interleaving of the workers the driver
\* terminates; it reads size() and get(0) only after every worker has been
\* joined; the total it prints is the number of workers times the number of
\* values per worker; get(0) does not raise DataException and the first
\* element it prints is id * 100 for the worker id that was granted the mutex
\* first. The driver ends without printing only when bad_alloc left a worker
\* and std::terminate ended the process.
Joined == \A t \in Tasks : pc[t] = "idle" /\ nadds[t] = AddsPerWorker

DriverOutcomeState ==
    /\ mainpc \notin {"join", "aborted"} => Joined
    /\ printed.total # None =>
           printed.total = Value(NumTasks * AddsPerWorker)
    /\ printed.first # None =>
           /\ printed.first # DataException
           /\ \E id \in Tasks : printed.first = Value(id * ValueStride)
           /\ granted # <<>> /\ printed.first = Value(granted[1])
    /\ mainpc = "done" => printed.total # None /\ printed.first # None
    /\ mainpc = "aborted" => failedAdds = {} /\ \E t \in Tasks : res[t] = BadAlloc

DriverOutcome ==
    /\ []DriverOutcomeState
    /\ <>(mainpc \in {"done", "aborted"})

\* The driver has printed both lines, and the first element is the first
\* value of the second worker.
DriverOutcomeWitness ==
    /\ mainpc = "done"
    /\ printed.total = Value(NumTasks * AddsPerWorker)
    /\ printed.first = Value(2 * ValueStride)

\* C17 Stable prefix: while the sequence lives its length never decreases
\* and the value stored at an index stays at that index unchanged, also
\* across a growth of the storage; a get(i) that succeeds returns the value
\* stored at i, so any two successful get(i) calls return the same value.
StablePrefixStep ==
    alive' =>
        /\ Len(data') >= Len(data)
        /\ \A i \in DOMAIN data : data'[i] = data[i]

SuccessfulGetStep ==
    \A t \in Tasks :
        (pc[t] = "get_unlock" /\ pc'[t] = "get_unlock") =>
            /\ res[t].kind = "value"
            /\ res'[t] = res[t]
            /\ res'[t] = Value(At(data', arg'[t]))

StablePrefix ==
    /\ [][StablePrefixStep]_vars
    /\ [][SuccessfulGetStep]_vars
    /\ [](\A t \in Tasks : pc[t] = "get_unlock" =>
              res[t] = Value(At(data, arg[t])))

\* The storage has grown twice under the first element (capacity 1, 2, 4)
\* and a get(0) returns the value that was appended first.
StablePrefixWitness ==
    \E t \in Tasks :
        /\ Len(data) = 3
        /\ cap = 4
        /\ pc[t] = "get_unlock"
        /\ arg[t] = 0
        /\ res[t] = Value(granted[1])

\* C18 Per-task order: the values a task appended are stored in the order
\* in which it appended them; in the driver the values id * 100 + 0,
\* id * 100 + 1, ... of every worker id are all stored once the workers are
\* joined, at strictly increasing indices, whatever the interleaving.
IndexOf(v) == CHOOSE i \in DOMAIN data : data[i] = v

PerTaskOrder ==
    /\ \A i, j \in DOMAIN data :
           (i < j /\ TaskOf(data[i]) = TaskOf(data[j])) => data[i] < data[j]
    /\ (alive /\ mainpc \notin {"join", "aborted"}) =>
           \A id \in Tasks : \A k \in 0..(AddsPerWorker - 1) :
               /\ id * ValueStride + k \in Range(data)
               /\ k > 0 =>
                      /\ id * ValueStride + k - 1 \in Range(data)
                      /\ IndexOf(id * ValueStride + k - 1)
                             < IndexOf(id * ValueStride + k)

\* The workers are joined and their values alternate in the sequence.
PerTaskOrderWitness ==
    /\ mainpc = "destroy"
    /\ Len(data) = NumTasks * AddsPerWorker
    /\ TaskOf(data[1]) # TaskOf(data[2])
    /\ TaskOf(data[2]) # TaskOf(data[3])

\* C19 Growth protocol: an allocator event happens only in a step of the
\* task that holds the mutex inside add(), or when the sequence is
\* destroyed, never in get() or size(); add() acquires storage only when the
\* length equals the capacity, it holds the larger block before it releases
\* the old one, and one add() causes at most one acquire and at most one
\* release; whenever the mutex is free at most one block is outstanding and
\* its element count is at least the length.
AllocatorEventStep ==
    log' # log =>
        /\ Len(log') = Len(log) + 1
        /\ \A i \in DOMAIN log : log'[i] = log[i]
        /\ \/ alive /\ ~alive' /\ Emits("release")
           \/ \E t \in Tasks :
                  /\ mtx = t /\ mtx' = t
                  /\ \/ /\ Emits("acquire")
                        /\ pc[t] = "add_push"
                        /\ pc'[t] \in {"add_reloc", "add_unwind"}
                        /\ Len(data) = cap
                        /\ EmittedCount > cap
                     \/ /\ Emits("release")
                        /\ pc[t] = "add_reloc"
                        /\ pc'[t] = "add_unlock"
                        /\ newp[t] # NoBlock
                        /\ newp[t].n > cap
                        /\ \E b \in heap : b.p = newp[t].p /\ b.p # start

\* Inside one add() the acquiring step and the releasing step are each
\* passed once.
OnePassStep ==
    \A t \in Tasks :
        /\ (pc'[t] = "add_push" /\ pc[t] # "add_push") => pc[t] = "add_lock"
        /\ (pc'[t] = "add_reloc" /\ pc[t] # "add_reloc") => pc[t] = "add_push"
        /\ pc[t] = "add_push" => pc'[t] \notin {"add_lock", "idle"}
        /\ pc[t] = "add_reloc" => pc'[t] \in {"add_reloc", "add_unlock"}

QuiescentStorage ==
    mtx = NoTask =>
        /\ Cardinality(heap) <= 1
        /\ \A b \in heap : b.p = start /\ b.n = cap /\ b.n >= Len(data)

GrowthProtocol ==
    /\ [][AllocatorEventStep]_vars
    /\ [][OnePassStep]_vars
    /\ []QuiescentStorage

\* A growing add() holds the newly acquired block of 4 elements while the
\* old block of 2 is not yet released.
GrowthProtocolWitness ==
    \E t \in Tasks :
        /\ pc[t] = "add_reloc"
        /\ mtx = t
        /\ cap = 2
        /\ newp[t].n = 4
        /\ Cardinality(heap) = 2

====
